---- MODULE Spec2Model ----
(***************************************************************************)
(* A model of the command-line record store of src/main.go: Perform        *)
(* validates an argument map, dispatches to read (list), add, find or      *)
(* remove, and each of those opens and reads the backing file and, for add *)
(* and remove, overwrites it.                                              *)
(*                                                                         *)
(* JSON text is modelled as a sequence of lexical tokens (punctuation,     *)
(* strings, numbers, the literals null, true and false), so that           *)
(* json.Marshal and json.Unmarshal are a printer and a parser, not the     *)
(* identity.  Flag values other than the item are TLA+ strings; the item's *)
(* text is its token sequence, and its empty string is the empty sequence. *)
(*                                                                         *)
(* The backing file carries the permission bits it was created with, and   *)
(* the process runs either as the file's unprivileged owner or with the    *)
(* privilege that overrides permission bits; which one is the choice of    *)
(* the environment.  The umask is taken to leave the owner's bits alone    *)
(* and the directory to be writable.  The errors modelled are the ones the *)
(* code raises or can bring about itself: validation, "No data ...", JSON  *)
(* errors, a refused open or write, and the slice-bounds panic of remove.  *)
(***************************************************************************)
EXTENDS Integers, Sequences, FiniteSets, TLC

\* ------------------------------------------------------------------ bounds

\* Longest collection the model stores (initial files and the cap on add).
MaxLen == 3

\* ------------------------------------------------------- program constants

pOperation == "operation"
pFileName == "fileName"
pItem == "item"
pId == "id"

opAdd == "add"
opList == "list"
opFind == "findById"
opRemove == "remove"

operationsIndex == <<opAdd, opList, opFind, opRemove>>

requiredFlag == pOperation

additionalRequiredFlags ==
    [o \in {opList, opAdd, opFind, opRemove} |->
        CASE o = opList -> <<pFileName>>
          [] o = opAdd -> <<pFileName, pItem>>
          [] o = opFind -> <<pFileName, pId>>
          [] o = opRemove -> <<pFileName, pId>>]

\* The range of Record.Age, an int8.
Int8Min == -128
Int8Max == 127

\* The permission arguments, octal in the source: 0444 of read's OpenFile,
\* 0644 of the OpenFile of add, find and remove, 0660 of ioutil.WriteFile.
Mode0444 == 292
Mode0644 == 420
Mode0660 == 432

\* ------------------------------------------------------------- JSON tokens

P(s) == [t |-> "punct", v |-> s]
S(s) == [t |-> "str", v |-> s]
N(n) == [t |-> "num", v |-> n]
\* One of the literals null, true, false.
L(s) == [t |-> "lit", v |-> s]
\* The bytes of a plain (non-JSON) message.
T(s) == [t |-> "text", v |-> s]

IsP(tok, s) == tok.t = "punct" /\ tok.v = s
IsNull(tok) == tok.t = "lit" /\ tok.v = "null"

\* The Go zero value of a Record.
ZeroRecord == [id |-> "", email |-> "", age |-> 0]

\* json.Marshal of one Record: the fields in declaration order under their tags.
MarshalRecord(rec) ==
    << P("{"), S("id"), P(":"), S(rec.id), P(","),
       S("email"), P(":"), S(rec.email), P(","),
       S("age"), P(":"), N(rec.age), P("}") >>

RECURSIVE MarshalElems(_)
MarshalElems(m) ==
    IF Len(m) = 0 THEN << >>
    ELSE IF Len(m) = 1 THEN MarshalRecord(m[1])
    ELSE MarshalRecord(m[1]) \o << P(",") >> \o MarshalElems(Tail(m))

\* json.Marshal of a non-nil []Record.
Marshal(m) == << P("[") >> \o MarshalElems(m) \o << P("]") >>

ParseError == [ok |-> FALSE, val |-> << >>]
Parsed(v) == [ok |-> TRUE, val |-> v]

\* The syntax of a JSON value.  ValueEnd is the index of the last token of the
\* value that starts at token i, 0 when no value starts there; MembersEnd and
\* ElemsEnd are the index of the "}" or "]" that closes the members or the
\* elements starting at token i.
RECURSIVE ValueEnd(_, _)
RECURSIVE MembersEnd(_, _)
RECURSIVE ElemsEnd(_, _)

\* What follows a member's value ending at token e: "," and more members, or "}".
AfterMember(toks, e) ==
    IF e = 0 \/ e + 1 > Len(toks) THEN 0
    ELSE IF IsP(toks[e + 1], ",") THEN MembersEnd(toks, e + 2)
    ELSE IF IsP(toks[e + 1], "}") THEN e + 1
    ELSE 0

MembersEnd(toks, i) ==
    IF i + 2 > Len(toks) THEN 0
    ELSE IF ~(toks[i].t = "str" /\ IsP(toks[i + 1], ":")) THEN 0
    ELSE AfterMember(toks, ValueEnd(toks, i + 2))

\* What follows an element ending at token e: "," and more elements, or "]".
AfterElem(toks, e) ==
    IF e = 0 \/ e + 1 > Len(toks) THEN 0
    ELSE IF IsP(toks[e + 1], ",") THEN ElemsEnd(toks, e + 2)
    ELSE IF IsP(toks[e + 1], "]") THEN e + 1
    ELSE 0

ElemsEnd(toks, i) == AfterElem(toks, ValueEnd(toks, i))

ValueEnd(toks, i) ==
    IF i > Len(toks) THEN 0
    ELSE IF toks[i].t \in {"str", "num", "lit"} THEN i
    ELSE IF IsP(toks[i], "{")
    THEN IF i + 1 <= Len(toks) /\ IsP(toks[i + 1], "}") THEN i + 1
         ELSE MembersEnd(toks, i + 1)
    ELSE IF IsP(toks[i], "[")
    THEN IF i + 1 <= Len(toks) /\ IsP(toks[i + 1], "]") THEN i + 1
         ELSE ElemsEnd(toks, i + 1)
    ELSE 0

\* The text is one JSON value and nothing else; json.Unmarshal checks this
\* before it decodes.
WellFormed(toks) == Len(toks) > 0 /\ ValueEnd(toks, 1) = Len(toks)

\* The upper-case form of the letters of the Record's tags.
Upper ==
    [c \in {"a", "d", "e", "g", "i", "l", "m"} |->
        CASE c = "a" -> "A" [] c = "d" -> "D" [] c = "e" -> "E" [] c = "g" -> "G"
          [] c = "i" -> "I" [] c = "l" -> "L" [] c = "m" -> "M"]

\* Every spelling of a tag, given letter by letter, that differs from it in
\* the case of letters alone.
RECURSIVE Spellings(_)
Spellings(letters) ==
    IF Len(letters) = 0 THEN {""}
    ELSE {c \o rest : c \in {letters[1], Upper[letters[1]]},
                      rest \in Spellings(Tail(letters))}

\* The keys json.Unmarshal takes for each field of Record: the tag, matched
\* without regard to case.
IdKeys == Spellings(<< "i", "d" >>)
EmailKeys == Spellings(<< "e", "m", "a", "i", "l" >>)
AgeKeys == Spellings(<< "a", "g", "e" >>)

\* One member "key": value stored into a Record, val being the first token of
\* the value.  null leaves the field as it is, a value of another type than
\* the field's (or a number outside int8, for the age) is an error, and the
\* value of a key that names no field is skipped whatever it is.
SetField(rec, key, val) ==
    IF key \in IdKeys
    THEN IF val.t = "str" THEN Parsed([rec EXCEPT !.id = val.v])
         ELSE IF IsNull(val) THEN Parsed(rec) ELSE ParseError
    ELSE IF key \in EmailKeys
    THEN IF val.t = "str" THEN Parsed([rec EXCEPT !.email = val.v])
         ELSE IF IsNull(val) THEN Parsed(rec) ELSE ParseError
    ELSE IF key \in AgeKeys
    THEN IF val.t = "num" /\ val.v >= Int8Min /\ val.v <= Int8Max
         THEN Parsed([rec EXCEPT !.age = val.v])
         ELSE IF IsNull(val) THEN Parsed(rec) ELSE ParseError
    ELSE Parsed(rec)

\* The members of a well-formed object decoded into rec, from the key at
\* token i on; a later member of the same field overrides an earlier one.
RECURSIVE ParseMembers(_, _, _)

\* After the member whose value ends at token e was stored with the result r.
NextMember(toks, e, r) ==
    IF ~r.ok THEN ParseError
    ELSE IF IsP(toks[e + 1], ",") THEN ParseMembers(toks, e + 2, r.val)
    ELSE r

ParseMembers(toks, i, rec) ==
    NextMember(toks, ValueEnd(toks, i + 2), SetField(rec, toks[i].v, toks[i + 2]))

\* The well-formed value at token i decoded into the Record rec: null leaves
\* it as it is, an object sets its fields, anything else is a type error.
DecodeRecord(toks, i, rec) ==
    IF IsNull(toks[i]) THEN Parsed(rec)
    ELSE IF ~IsP(toks[i], "{") THEN ParseError
    ELSE IF IsP(toks[i + 1], "}") THEN Parsed(rec)
    ELSE ParseMembers(toks, i + 1, rec)

\* json.Unmarshal of text into a Record that holds the zero value.
UnmarshalRecord(toks) ==
    IF ~WellFormed(toks) THEN ParseError
    ELSE DecodeRecord(toks, 1, ZeroRecord)

\* The elements of a well-formed array, from token i on, each decoded into a
\* fresh Record.
RECURSIVE ParseElems(_, _)

Cons(x, rest) == IF rest.ok THEN Parsed(<< x >> \o rest.val) ELSE ParseError

\* After the element ending at token e was decoded with the result r.
NextElem(toks, e, r) ==
    IF ~r.ok THEN ParseError
    ELSE IF IsP(toks[e + 1], ",") THEN Cons(r.val, ParseElems(toks, e + 2))
    ELSE Parsed(<< r.val >>)

ParseElems(toks, i) ==
    NextElem(toks, ValueEnd(toks, i), DecodeRecord(toks, i, ZeroRecord))

\* json.Unmarshal of text into a []Record: null gives no records, an array its
\* elements, anything else is a type error.
Unmarshal(toks) ==
    IF ~WellFormed(toks) THEN ParseError
    ELSE IF IsNull(toks[1]) THEN Parsed(<< >>)
    ELSE IF ~IsP(toks[1], "[") THEN ParseError
    ELSE IF IsP(toks[2], "]") THEN Parsed(<< >>)
    ELSE ParseElems(toks, 2)

\* -------------------------------------------------------------- arguments

\* The Arguments map is a function from the flags supplied to their values;
\* a lookup of a missing key yields Go's zero value, the empty string.
Flags == {pOperation, pFileName, pItem, pId}

Get(args, key) ==
    IF key \in DOMAIN args THEN args[key]
    ELSE IF key = pItem THEN << >> ELSE ""

\* -------------------------------------------------------------- validation

Contains(seq, x) == \E i \in 1..Len(seq) : seq[i] = x

\* Mutant of validateParamEntered: reports the last parameter without a value
\* instead of the first.
validateParamEnteredLast(args, params) ==
    LET missing == {i \in 1..Len(params) : Len(Get(args, params[i])) = 0}
    IN IF missing = {} THEN ""
       ELSE LET i == CHOOSE j \in missing : \A k \in missing : j >= k
            IN "-" \o params[i] \o " flag has to be specified"

\* The error of the first parameter of params that has no value; "" is nil.
validateParamEntered(args, params) ==
    LET missing == {i \in 1..Len(params) : Len(Get(args, params[i])) = 0}
    IN IF missing = {} THEN ""
       ELSE LET i == CHOOSE j \in missing : \A k \in missing : j <= k
            IN "-" \o params[i] \o " flag has to be specified"

validateOpAllowed(operation) ==
    IF ~Contains(operationsIndex, operation)
    THEN "Operation " \o operation \o " not allowed!"
    ELSE ""

validateConsequently(args, reqFlag, params) ==
    LET errOperationSpecified == validateParamEntered(args, << reqFlag >>)
    IN IF errOperationSpecified # "" THEN errOperationSpecified
       ELSE LET errAllowed == validateOpAllowed(Get(args, reqFlag))
            IN IF errAllowed # "" THEN errAllowed
               ELSE validateParamEntered(args, params[Get(args, reqFlag)])

\* ---------------------------------------------------------------- the file

\* The backing file: whether it exists, the permission bits it was created
\* with, and its bytes (tokens).
AbsentFile == [exists |-> FALSE, mode |-> 0, bytes |-> << >>]
FileOf(bytes, mode) == [exists |-> TRUE, mode |-> mode, bytes |-> bytes]

\* The owner's read bit (0400) and write bit (0200).
OwnerMayRead(mode) == (mode \div 256) % 2 = 1
OwnerMayWrite(mode) == (mode \div 128) % 2 = 1

\* os.OpenFile with O_CREATE, for reading (O_RDONLY) or for reading and
\* writing (O_RDWR): an absent file is created empty with the bits of perm
\* and opened; an existing file keeps its bits and bytes, and the open is
\* refused when the process is not privileged and the bits deny the access.
OpenFile(f, rdwr, perm, priv) ==
    IF ~f.exists THEN [ok |-> TRUE, file |-> FileOf(<< >>, perm)]
    ELSE [ok |-> priv \/ (OwnerMayRead(f.mode) /\ (rdwr => OwnerMayWrite(f.mode))),
          file |-> f]

\* ioutil.WriteFile with the permission 0660: an absent file is created with
\* those bits; an existing one keeps its bits and holds exactly data, unless
\* the write is refused.
WriteFile(f, data, priv) ==
    IF ~f.exists THEN [ok |-> TRUE, file |-> FileOf(data, Mode0660)]
    ELSE IF priv \/ OwnerMayWrite(f.mode)
    THEN [ok |-> TRUE, file |-> [f EXCEPT !.bytes = data]]
    ELSE [ok |-> FALSE, file |-> f]

ErrNoData == "No data to search for a record"
\* The error of a json.Unmarshal that fails (syntax or type).
ErrJSON == "json: cannot unmarshal"
\* The *PathError of an open that the permission bits refuse.
ErrPermission(name) == "open " \o name \o ": permission denied"

\* What a handler returns and does: the file afterwards, the buffer and the
\* error returned ("" is nil), whether it panicked, the file reads and writes.
Result(f, buf, err, reads, writes) ==
    [file |-> f, buf |-> buf, err |-> err, panic |-> FALSE,
     reads |-> reads, writes |-> writes]

Panic(f, reads) ==
    [file |-> f, buf |-> << >>, err |-> "", panic |-> TRUE,
     reads |-> reads, writes |-> 0]

\* The end of add and of remove: the result of the write w of marshalled to
\* the file called name.
Written(w, marshalled, name) ==
    IF w.ok THEN Result(w.file, marshalled, "", 1, 1)
    ELSE Result(w.file, << >>, ErrPermission(name), 1, 0)

\* ---------------------------------------------------------------- handlers

\* Mutant of ReadOpened: the open truncates the file.
ReadOpenedTruncating(args, o) ==
    IF ~o.ok THEN Result(o.file, << >>, ErrPermission(Get(args, pFileName)), 0, 0)
    ELSE Result([o.file EXCEPT !.bytes = << >>], << >>, "", 1, 0)

\* read after its open o.
ReadOpened(args, o) ==
    IF ~o.ok THEN Result(o.file, << >>, ErrPermission(Get(args, pFileName)), 0, 0)
    ELSE Result(o.file, o.file.bytes, "", 1, 0)

read(args, f, priv) == ReadOpened(args, OpenFile(f, FALSE, Mode0444, priv))

\* Mutant of IndexOfId: looks at the first record alone.
IndexOfIdFirstOnly(m, id, i) ==
    IF Len(m) >= 1 /\ m[1].id = id THEN 1 ELSE 0

\* The first index of m whose record has the id, 0 when there is none.
RECURSIVE IndexOfId(_, _, _)
IndexOfId(m, id, i) ==
    IF i > Len(m) THEN 0
    ELSE IF m[i].id = id THEN i
    ELSE IndexOfId(m, id, i + 1)

\* Mutant of AddParsed: appends without the scan for an equal id.
AddUnchecked(f, m, n, name, priv) ==
    Written(WriteFile(f, Marshal(Append(m, n)), priv), Marshal(Append(m, n)), name)

\* add once the file and the item are parsed: the scan for the id, the append
\* and the write.
AddParsed(f, m, n, name, priv) ==
    LET dup == IndexOfId(m, n.id, 1)
    IN IF dup # 0
       THEN Result(f, << T("Item with id " \o m[dup].id \o " already exists") >>,
                   "", 1, 0)
       ELSE Written(WriteFile(f, Marshal(Append(m, n)), priv),
                    Marshal(Append(m, n)), name)

\* add after its open o.
AddOpened(args, o, priv) ==
    IF ~o.ok THEN Result(o.file, << >>, ErrPermission(Get(args, pFileName)), 0, 0)
    ELSE LET buf == o.file.bytes
             pm == IF Len(buf) # 0 THEN Unmarshal(buf) ELSE Parsed(<< >>)
         IN IF ~pm.ok THEN Result(o.file, << >>, ErrJSON, 1, 0)
            ELSE LET pn == UnmarshalRecord(Get(args, pItem))
                 IN IF ~pn.ok THEN Result(o.file, << >>, ErrJSON, 1, 0)
                    ELSE AddParsed(o.file, pm.val, pn.val,
                                   Get(args, pFileName), priv)

add(args, f, priv) == AddOpened(args, OpenFile(f, TRUE, Mode0644, priv), priv)

\* The scan of find: the first record with the id, marshalled; nil when no
\* record has it.
FindScan(m, id) ==
    LET i == IndexOfId(m, id, 1)
    IN IF i = 0 THEN << >> ELSE MarshalRecord(m[i])

\* find after its open o.
FindOpened(args, o) ==
    IF ~o.ok THEN Result(o.file, << >>, ErrPermission(Get(args, pFileName)), 0, 0)
    ELSE IF Len(o.file.bytes) = 0 THEN Result(o.file, << >>, ErrNoData, 1, 0)
    ELSE LET pm == Unmarshal(o.file.bytes)
         IN IF ~pm.ok THEN Result(o.file, << >>, ErrJSON, 1, 0)
            ELSE Result(o.file, FindScan(pm.val, Get(args, pId)), "", 1, 0)

find(args, f, priv) == FindOpened(args, OpenFile(f, FALSE, Mode0644, priv))

\* Mutant of RemoveLoop: on a match keeps m[:ind-1] alone, dropping the tail.
RemoveLoopTruncate(arr, len, ind, id, foundId) ==
    LET hits == {i \in 1..Len(arr) : arr[i].id = id}
    IN IF hits = {}
       THEN [panic |-> FALSE, m |-> arr, foundId |-> ""]
       ELSE LET i == CHOOSE j \in hits : \A k \in hits : j <= k
            IN [panic |-> FALSE, m |-> SubSeq(arr, 1, i - 1), foundId |-> id]

\* The loop of remove.  range fixed the n elements of the backing array arr
\* when it started; m is arr[1..len].  At ind (1-based; Go's index is ind-1)
\* the element read is arr[ind], stale or not.  On a match
\* m = append(m[:ind-1], m[ind:]...) shifts arr[ind+1..len] one place down in
\* place and leaves arr[len] as it was; m[ind:] panics when ind > len.
RECURSIVE RemoveLoop(_, _, _, _, _)
RemoveLoop(arr, len, ind, id, foundId) ==
    IF ind > Len(arr)
    THEN [panic |-> FALSE, m |-> SubSeq(arr, 1, len), foundId |-> foundId]
    ELSE IF arr[ind].id = id
    THEN IF ind > len
         THEN [panic |-> TRUE, m |-> << >>, foundId |-> arr[ind].id]
         ELSE RemoveLoop([k \in 1..Len(arr) |->
                             IF k >= ind /\ k < len THEN arr[k + 1] ELSE arr[k]],
                         len - 1, ind + 1, id, arr[ind].id)
    ELSE RemoveLoop(arr, len, ind + 1, id, foundId)

\* remove after its loop l: the message when nothing was found, the marshal
\* and the write otherwise.  A panic of the loop ends the process.
RemoveFinish(f, id, l, name, priv) ==
    IF l.panic THEN Panic(f, 1)
    ELSE IF l.foundId = ""
    THEN Result(f, << T("Item with id " \o id \o " not found") >>, "", 1, 0)
    ELSE Written(WriteFile(f, Marshal(l.m), priv), Marshal(l.m), name)

\* remove once the file is parsed.
RemoveParsed(f, m, id, name, priv) ==
    RemoveFinish(f, id, RemoveLoop(m, Len(m), 1, id, ""), name, priv)

\* remove after its open o.
RemoveOpened(args, o, priv) ==
    IF ~o.ok THEN Result(o.file, << >>, ErrPermission(Get(args, pFileName)), 0, 0)
    ELSE IF Len(o.file.bytes) = 0 THEN Result(o.file, << >>, ErrNoData, 1, 0)
    ELSE LET pm == Unmarshal(o.file.bytes)
         IN IF ~pm.ok THEN Result(o.file, << >>, ErrJSON, 1, 0)
            ELSE RemoveParsed(o.file, pm.val, Get(args, pId),
                              Get(args, pFileName), priv)

remove(args, f, priv) == RemoveOpened(args, OpenFile(f, FALSE, Mode0644, priv), priv)

\* Perform: the validation, the dispatch, and the write of the buffer to the
\* writer when the handler returned no error.
Perform(args, f, priv) ==
    LET err0 == validateConsequently(args, requiredFlag, additionalRequiredFlags)
    IN IF err0 # "" THEN Result(f, << >>, err0, 0, 0)
       ELSE LET op == Get(args, pOperation)
                r == CASE op = opList -> read(args, f, priv)
                       [] op = opAdd -> add(args, f, priv)
                       [] op = opFind -> find(args, f, priv)
                       [] op = opRemove -> remove(args, f, priv)
            IN IF r.err # "" THEN [r EXCEPT !.buf = << >>] ELSE r

\* ------------------------------------------------------------------- state

VARIABLES
    privileged, \* whether the process overrides the file's permission bits
    file,      \* the backing file
    args,      \* the argument map of the last invocation of Perform
    pre,       \* the backing file as that invocation found it
    out,       \* what that invocation wrote to the writer
    err,       \* the error it returned ("" is nil)
    outcome,   \* "none" before any invocation, then "ok", "error" or "panic"
    reads,     \* how many times it read the file
    writes,    \* how many times it overwrote the file
    prevAdded  \* << A >> when the invocation before it added the Record A to
               \* an empty collection, << >> otherwise

vars == << privileged, file, args, pre, out, err, outcome, reads, writes, prevAdded >>

\* ------------------------------------------------------------------ inputs

Ids == {"", "1", "2"}

\* The records of the initial files: one without an id and two with the id
\* "1"; a record with the id "2" comes from the items alone.
Records ==
    {[id |-> i, email |-> "a@b.com", age |-> 30] : i \in {"", "1"}}
        \cup {[id |-> "1", email |-> "c@d.org", age |-> -128]}

\* The one path the invocations name.
FileName == "db.json"

\* The item texts: every Record marshalled, an object without an id, a
\* truncated text, an age outside int8, keys in another case than the tags,
\* keys that name no field with values of every shape, a null id and an age
\* that is a string under a capitalised key.
ItemNoId ==
    << P("{"), S("email"), P(":"), S("a@b.com"), P(","), S("age"), P(":"), N(30), P("}") >>
ItemTruncated == << P("{"), S("id"), P(":") >>
ItemAgeOverflow ==
    << P("{"), S("id"), P(":"), S("1"), P(","), S("age"), P(":"), N(128), P("}") >>
ItemFoldedKeys ==
    << P("{"), S("ID"), P(":"), S("2"), P(","), S("EMAIL"), P(":"), S("a@b.com"),
       P(","), S("Age"), P(":"), N(30), P("}") >>
ItemExtraKeys ==
    << P("{"), S("id"), P(":"), S("1"), P(","),
       S("tags"), P(":"), P("["), P("{"), S("k"), P(":"), L("null"), P("}"),
                          P(","), L("true"), P(","), P("["), P("]"), P("]"), P(","),
       S("email"), P(":"), S("c@d.org"), P(","), S("x"), P(":"), P("{"), P("}"),
       P(","), S("age"), P(":"), N(-128), P("}") >>
ItemNullId ==
    << P("{"), S("id"), P(":"), L("null"), P(","), S("email"), P(":"), S("a@b.com"),
       P(","), S("age"), P(":"), N(30), P("}") >>
ItemAgeText == << P("{"), S("Age"), P(":"), S("x"), P("}") >>
Items == {MarshalRecord(r) : r \in Records}
             \cup {ItemNoId, ItemTruncated, ItemAgeOverflow,
                   ItemFoldedKeys, ItemExtraKeys, ItemNullId, ItemAgeText}

Distinct(m) == \A i, j \in 1..Len(m) : i # j => m[i].id # m[j].id

\* File contents that do not parse: a truncated array, a record whose id is a
\* number.
FileTruncated == << P("[") >>
FileBadId == << P("["), P("{"), S("id"), P(":"), N(7), P("}"), P("]") >>
\* File contents other than what the program writes: a record with a key that
\* names no field, and the literal null.
FileExtraKey ==
    << P("["), P("{"), S("id"), P(":"), S("1"), P(","), S("tags"), P(":"), P("["), P("]"),
       P(","), S("Email"), P(":"), S("a@b.com"), P(","), S("age"), P(":"), N(30),
       P("}"), P("]") >>
FileNull == << L("null") >>

Collections == UNION {[1..n -> Records] : n \in 0..MaxLen}

\* The files an invocation may find: none; the empty file as an earlier list
\* created it (0444) or as an earlier add, find or remove did (0644); and files
\* with content, writable by their owner.
InitFiles ==
    {AbsentFile, FileOf(<< >>, Mode0444), FileOf(<< >>, Mode0644),
     FileOf(FileTruncated, Mode0644), FileOf(FileBadId, Mode0644),
     FileOf(FileExtraKey, Mode0644), FileOf(FileNull, Mode0644)}
        \cup {FileOf(Marshal(m), Mode0644) : m \in Collections}

InitFilesDistinct ==
    {AbsentFile, FileOf(<< >>, Mode0444), FileOf(<< >>, Mode0644),
     FileOf(FileExtraKey, Mode0644), FileOf(FileNull, Mode0644)}
        \cup {FileOf(Marshal(m), Mode0644) : m \in {c \in Collections : Distinct(c)}}

\* The argument map with the flags of D, valued o, f, i and d.
ArgsOf(D, o, f, i, d) ==
    [k \in D |-> CASE k = pOperation -> o
                   [] k = pFileName -> f
                   [] k = pItem -> i
                   [] k = pId -> d]

\* ----------------------------------------------------------------- actions

InitRest ==
    /\ args = << >>
    /\ pre = file
    /\ out = << >>
    /\ err = ""
    /\ outcome = "none"
    /\ reads = 0
    /\ writes = 0
    /\ prevAdded = << >>

Init == privileged \in BOOLEAN /\ file \in InitFiles /\ InitRest

InitDistinct == privileged \in BOOLEAN /\ file \in InitFilesDistinct /\ InitRest

\* The Record A the last invocation added to an empty collection (an empty or
\* absent file), when it was an add that succeeded and its item was the
\* serialization of A.
AddedToEmpty ==
    IF outcome = "ok" /\ Get(args, pOperation) = opAdd /\ writes = 1
       /\ Len(pre.bytes) = 0
       /\ \E A \in Records : Get(args, pItem) = MarshalRecord(A)
    THEN << CHOOSE A \in Records : Get(args, pItem) = MarshalRecord(A) >>
    ELSE << >>

\* The number of records of a file that parses, 0 otherwise.
Size(f) == LET pm == Unmarshal(f.bytes) IN IF pm.ok THEN Len(pm.val) ELSE 0

\* The state after an invocation with the argument map a that did r.
Commit(a, r) ==
    /\ privileged' = privileged
    /\ file' = r.file
    /\ args' = a
    /\ pre' = file
    /\ out' = r.buf
    /\ err' = r.err
    /\ outcome' = IF r.panic THEN "panic" ELSE IF r.err # "" THEN "error" ELSE "ok"
    /\ reads' = r.reads
    /\ writes' = r.writes
    /\ prevAdded' = AddedToEmpty

\* One invocation of Perform with the argument map a.
Invoke(a) == Commit(a, Perform(a, file, privileged))

Valid(a) == validateConsequently(a, requiredFlag, additionalRequiredFlags) = ""

\* The argument maps of the validation: the operation absent, empty, unknown
\* or known; the file name absent, empty or valued; the item and the id empty
\* together or valued together.
PresenceArgs ==
    {ArgsOf(D \cup {pItem, pId}, o, FileName,
            IF e THEN ItemNoId ELSE << >>, IF e THEN "1" ELSE "") :
        D \in SUBSET {pOperation, pFileName},
        o \in {"", opList, opAdd, opFind, opRemove, "drop"},
        e \in BOOLEAN}
      \cup {ArgsOf(Flags, o, "", IF e THEN ItemNoId ELSE << >>, IF e THEN "1" ELSE "") :
               o \in {opList, opFind}, e \in BOOLEAN}

\* An invocation the validation rejects.
PerformRejected ==
    \E a \in PresenceArgs :
        /\ ~Valid(a)
        /\ Invoke(a)

\* list, with the item and the id empty or valued.
PerformList ==
    \E a \in PresenceArgs :
        /\ Valid(a)
        /\ Get(a, pOperation) = opList
        /\ Invoke(a)

\* The collection an add of the item i would store has at most MaxLen records.
Fits(i) ==
    Size(add(ArgsOf({pOperation, pFileName, pItem}, opAdd, FileName, i, ""),
             file, privileged).file)
        <= MaxLen

\* add of an item, as long as the collection stays within MaxLen records.
PerformAdd ==
    \E i \in Items :
        /\ Fits(i)
        /\ Invoke(ArgsOf({pOperation, pFileName, pItem}, opAdd, FileName, i, ""))

PerformFind ==
    \E d \in Ids :
        /\ d # ""
        /\ Invoke(ArgsOf({pOperation, pFileName, pId}, opFind, FileName, << >>, d))

PerformRemove ==
    \E d \in Ids :
        /\ d # ""
        /\ Invoke(ArgsOf({pOperation, pFileName, pId}, opRemove, FileName, << >>, d))

Next ==
    \/ PerformRejected
    \/ PerformList
    \/ PerformAdd
    \/ PerformFind
    \/ PerformRemove

\* Any file the user may supply.
Spec == Init /\ [][Next]_vars

\* A store whose identifiers are pairwise distinct to begin with.
SpecDistinct == InitDistinct /\ [][Next]_vars

\* ------------------------------------------------------------------ claims

\* The collection a file stores: the empty one for an empty or absent file,
\* the parsed array otherwise.
Stored(f) == IF Len(f.bytes) = 0 THEN Parsed(<< >>) ELSE Unmarshal(f.bytes)

HasId(m, id) == \E i \in 1..Len(m) : m[i].id = id
Count(m, id) == Cardinality({i \in 1..Len(m) : m[i].id = id})
Differs(r, id) == r.id # id
\* The records of m whose id differs from id, in their order.
Without(m, id) == SelectSeq(m, LAMBDA r : Differs(r, id))

\* The last invocation named the operation op and the backing file.
Ran(op) ==
    /\ outcome # "none"
    /\ Get(args, pOperation) = op
    /\ Get(args, pFileName) = FileName

TheId == Get(args, pId)
TheItem == Get(args, pItem)

NotFoundMessage(id) == << T("Item with id " \o id \o " not found") >>
ExistsMessage(id) == << T("Item with id " \o id \o " already exists") >>

\* The error the three checks of the validation give an argument map, written
\* out check by check; "" when all three pass.
ExpectedValidationError(a) ==
    LET op == Get(a, "operation")
    IN IF Len(op) = 0 THEN "-operation flag has to be specified"
       ELSE IF op \notin {"list", "add", "findById", "remove"}
       THEN "Operation " \o op \o " not allowed!"
       ELSE IF Len(Get(a, "fileName")) = 0 THEN "-fileName flag has to be specified"
       ELSE IF op = "add" /\ Len(Get(a, "item")) = 0
       THEN "-item flag has to be specified"
       ELSE IF op \in {"findById", "remove"} /\ Len(Get(a, "id")) = 0
       THEN "-id flag has to be specified"
       ELSE ""

ValidationErrors ==
    {"-" \o k \o " flag has to be specified" : k \in Flags}
        \cup {"Operation " \o o \o " not allowed!" : o \in {"drop"}}

\* C1: the validation of Perform runs its three checks in order (operation
\* present, operation allowed, the operation's required flags in their listed
\* order) and returns the error of the earliest check that fails, without
\* touching the file; it returns no validation error exactly when all pass.
C1_ValidationOrder ==
    outcome # "none" =>
        IF ExpectedValidationError(args) # ""
        THEN /\ outcome = "error"
             /\ err = ExpectedValidationError(args)
             /\ out = << >>
             /\ reads = 0
             /\ writes = 0
        ELSE err \notin ValidationErrors

\* An add without a file name and without an item is told of the file name.
C1_Witness ==
    /\ outcome = "error"
    /\ Get(args, pOperation) = opAdd
    /\ pFileName \notin DOMAIN args
    /\ pItem \in DOMAIN args /\ Len(args[pItem]) = 0
    /\ err = "-fileName flag has to be specified"

\* C2: for every Record A, add with the item A serialized against an empty
\* collection (an empty or absent file) succeeds and stores A alone, and
\* findById with A's id right after it succeeds and outputs exactly A
\* serialized.
C2_AddThenFind ==
    /\ (Ran(opAdd) /\ Len(pre.bytes) = 0
            /\ \E A \in Records : TheItem = MarshalRecord(A)) =>
           /\ outcome = "ok"
           /\ file.bytes = << P("[") >> \o TheItem \o << P("]") >>
    /\ (prevAdded # << >> /\ Ran(opFind) /\ pId \in DOMAIN args
            /\ TheId = prevAdded[1].id) =>
           /\ outcome = "ok"
           /\ out = MarshalRecord(prevAdded[1])

\* C3: an add whose item carries the id of a record already stored returns no
\* error, outputs "Item with id <id> already exists" and performs no write: the
\* file is as it was.
C3_AddDuplicate ==
    (Ran(opAdd) /\ Stored(pre).ok /\ UnmarshalRecord(TheItem).ok
        /\ HasId(Stored(pre).val, UnmarshalRecord(TheItem).val.id)) =>
        /\ outcome = "ok"
        /\ err = ""
        /\ out = ExistsMessage(UnmarshalRecord(TheItem).val.id)
        /\ writes = 0
        /\ file = pre

\* The item differs from the stored record of its id.
C3_Witness ==
    /\ Ran(opAdd)
    /\ pre.bytes = Marshal(<< [id |-> "", email |-> "a@b.com", age |-> 30],
                              [id |-> "1", email |-> "a@b.com", age |-> 30] >>)
    /\ TheItem = MarshalRecord([id |-> "1", email |-> "c@d.org", age |-> -128])
    /\ out = ExistsMessage("1")
    /\ file = pre

\* C4, for the ids the validation lets through: for every stored
\* collection, the empty one of an empty or absent file included, and every
\* id no record has, remove returns no error, outputs
\* "Item with id <id> not found" and leaves the collection unchanged.
C4_AnyFile ==
    (Ran(opRemove) /\ Stored(pre).ok /\ ~HasId(Stored(pre).val, TheId)
        /\ TheId # "") =>
        /\ outcome = "ok"
        /\ out = NotFoundMessage(TheId)
        /\ Stored(file) = Stored(pre)

\* C5, for the ids the validation lets through: for every stored
\* collection, the empty one of an empty or absent file included, findById of
\* an id no record has returns no error and writes nothing, and of an id some
\* record has outputs that record serialized.
C5_AnyFile ==
    (Ran(opFind) /\ Stored(pre).ok /\ TheId # "") =>
        /\ outcome = "ok"
        /\ IF HasId(Stored(pre).val, TheId)
           THEN \E i \in 1..Len(Stored(pre).val) :
                    /\ Stored(pre).val[i].id = TheId
                    /\ out = MarshalRecord(Stored(pre).val[i])
           ELSE out = << >>

\* C6 as stated: for every stored collection and every id exactly one of its
\* records carries, remove succeeds, stores the collection without that record
\* (every other record kept once, in order) and outputs it serialized.
C6_AnyId ==
    (Ran(opRemove) /\ pId \in DOMAIN args /\ Stored(pre).ok
        /\ Count(Stored(pre).val, TheId) = 1) =>
        /\ outcome = "ok"
        /\ Stored(file).ok
        /\ Len(Stored(file).val) = Len(Stored(pre).val) - 1
        /\ Stored(file).val = Without(Stored(pre).val, TheId)
        /\ out = Marshal(Stored(file).val)

\* C6 as amended: the same for every id that is not empty.
C6_RemoveOne ==
    (Ran(opRemove) /\ Stored(pre).ok /\ Count(Stored(pre).val, TheId) = 1
        /\ TheId # "") =>
        /\ outcome = "ok"
        /\ err = ""
        /\ writes = 1
        /\ Stored(file).ok
        /\ Len(Stored(file).val) = Len(Stored(pre).val) - 1
        /\ ~HasId(Stored(file).val, TheId)
        /\ Stored(file).val = Without(Stored(pre).val, TheId)
        /\ file.bytes = Marshal(Stored(file).val)
        /\ out = file.bytes

\* The record removed is the middle one of three.
C6_Witness ==
    /\ Ran(opRemove)
    /\ Len(Stored(pre).val) = 3
    /\ Stored(pre).val[2].id = TheId
    /\ Count(Stored(pre).val, TheId) = 1
    /\ Stored(file).val = << Stored(pre).val[1], Stored(pre).val[3] >>
    /\ out = file.bytes

\* C7: an add whose item carries an id no stored record has succeeds, stores
\* the collection followed by the item's record and outputs that collection
\* serialized.
C7_AddAppends ==
    (Ran(opAdd) /\ Stored(pre).ok /\ UnmarshalRecord(TheItem).ok
        /\ ~HasId(Stored(pre).val, UnmarshalRecord(TheItem).val.id)) =>
        /\ outcome = "ok"
        /\ err = ""
        /\ writes = 1
        /\ file.bytes = Marshal(Append(Stored(pre).val, UnmarshalRecord(TheItem).val))
        /\ out = file.bytes

\* C8: for every stored collection in which the id, not empty, occurs once or
\* more, remove completes and stores exactly the records whose id differs.
C8_RemoveEvery ==
    (Ran(opRemove) /\ Stored(pre).ok /\ Count(Stored(pre).val, TheId) >= 1
        /\ TheId # "") =>
        /\ outcome = "ok"
        /\ Stored(file).ok
        /\ Stored(file).val = Without(Stored(pre).val, TheId)
        /\ Len(Stored(file).val) = Len(Stored(pre).val) - Count(Stored(pre).val, TheId)

\* C9: an invocation reads the file at most once (not at all when the
\* validation fails, once when it succeeds) and overwrites it at most once; it overwrites it exactly when it is
\* an add of a new id or a remove that found its id and returned, and every
\* other invocation leaves the bytes of the file as they were.
C9_Frame ==
    outcome # "none" =>
        /\ reads <= 1
        /\ writes <= 1
        /\ ExpectedValidationError(args) # "" => reads = 0
        /\ outcome = "ok" => reads = 1
        /\ writes = 1 <=>
              /\ outcome = "ok"
              /\ Stored(pre).ok
              /\ \/ /\ Get(args, pOperation) = opAdd
                    /\ UnmarshalRecord(TheItem).ok
                    /\ ~HasId(Stored(pre).val, UnmarshalRecord(TheItem).val.id)
                 \/ /\ Get(args, pOperation) = opRemove
                    /\ HasId(Stored(pre).val, TheId)
        /\ writes = 0 => file.bytes = pre.bytes

\* A list of a file that does not parse leaves it as it was.
C9_Witness ==
    /\ Ran(opList)
    /\ outcome = "ok"
    /\ pre.bytes = FileTruncated
    /\ file.bytes = pre.bytes
    /\ reads = 1
    /\ writes = 0

\* C10: from a store whose ids are pairwise distinct (or an empty or absent
\* file), the stored collection never holds two records with the same id.
C10_UniqueIds == Stored(file).ok /\ Distinct(Stored(file).val)

\* Three records stored after an add.
C10_Witness ==
    /\ Ran(opAdd)
    /\ writes = 1
    /\ Len(Stored(pre).val) = 2
    /\ Len(Stored(file).val) = 3

====
